---- MODULE Spec2Model ----
(***************************************************************************)
(* The image cache of docker-marina (package daemon/cache): the four       *)
(* policy engines image-LRU, layer-LRU, archive-LRU and naive, their       *)
(* reader/writer lock, and the image service and layer store they call.    *)
(*                                                                         *)
(* A mutating call (PutImage, UpdateImage, RemoveImage) is a sequence of   *)
(* steps taken while the engine's lock is held: the part of the handler up *)
(* to its first eviction loop, then one step per loop iteration, because   *)
(* the loops need not terminate and the image service changes under them.  *)
(***************************************************************************)
EXTENDS Integers, Sequences, FiniteSets, TLC

\* ------------------------------------------------------------------ bounds

\* Most mutating calls of one behaviour.
MaxCalls == 4

\* Most collaborator errors of one behaviour that the state does not force
\* (a fetch of a layer that exists failing, an unclassified ImageDelete error).
MaxFaults == 1

\* ---------------------------------------------------------------- universe

Threads == {1, 2}
Images == {"A", "B"}
\* The images of the image-granularity engines' specification: one more.
ImagesOfThree == {"A", "B", "C"}
Chains == {"c1", "c2", "c3"}
Policies == {"image-lru", "layer-lru", "archive-lru", "naive"}
Capacities == {55, 80, 120}
CapacitiesOfThree == {100, 120}

\* img.RootFS.DiffIDs as the chain IDs they yield, base layer first. B and C
\* are two images over the same layers (they differ in their configuration).
ChainOf(img) ==
    CASE img = "A" -> <<"c1", "c2">>
      [] img = "B" -> <<"c1", "c3">>
      [] img = "C" -> <<"c1", "c3">>

\* layer.DiffSize(): fixed when the layer is registered.
DiffSize(c) == CASE c = "c1" -> 20 [] c = "c2" -> 30 [] c = "c3" -> 40

\* ----------------------------------------------------------------- helpers

Range(s) == {s[i] : i \in 1..Len(s)}

RECURSIVE SumSeq(_)
SumSeq(s) == IF s = <<>> THEN 0 ELSE Head(s) + SumSeq(Tail(s))

RECURSIVE Without(_, _)
Without(s, x) ==
    IF s = <<>> THEN <<>>
    ELSE IF Head(s) = x THEN Without(Tail(s), x)
    ELSE <<Head(s)>> \o Without(Tail(s), x)

RECURSIVE WithoutAll(_, _)
WithoutAll(s, X) ==
    IF s = <<>> THEN <<>>
    ELSE IF Head(s) \in X THEN WithoutAll(Tail(s), X)
    ELSE <<Head(s)>> \o WithoutAll(Tail(s), X)

Reverse(s) == [i \in 1..Len(s) |-> s[Len(s) + 1 - i]]

\* container/list: the list is a sequence, front first.
\* A PushFront that inserts at the back.
PushedBack(l, x) == l \o <<x>>
PushFront(l, x) == <<x>> \o l
\* A Back that answers the front element.
BackIsFront(l) == l[1]
\* A MoveToFront that leaves the order alone: what the recency properties must
\* tell apart from the list's own.
MoveToFrontStays(l, x) == l
\* MoveToFront of an element that is not in the list does nothing.
MoveToFront(l, x) == IF x \in Range(l) THEN <<x>> \o Without(l, x) ELSE l
Back(l) == l[Len(l)]

\* img.RootFS.ChainID(): the top layer.
TopChain(img) == ChainOf(img)[Len(ChainOf(img))]
\* PutImage / UpdateImage build chainIDs by prepending: top layer first.
ChainIDsTopDown(img) == Reverse(ChainOf(img))
\* The chain ID and those below it.
Ancestry ==
    [c \in Chains |->
        {d \in Chains : \E i \in ImagesOfThree : \E j, k \in 1..Len(ChainOf(i)) :
            /\ ChainOf(i)[k] = c /\ ChainOf(i)[j] = d /\ j <= k}]
AncSelf(c) == Ancestry[c]
\* topLayer.Size(): the cumulative size of the image's top layer.
ImageSize(img) == SumSeq([i \in 1..Len(ChainOf(img)) |-> DiffSize(ChainOf(img)[i])])

\* The retry threshold of layer-granularity eviction: abort when a chain ID's
\* counter exceeds it.
MaxRetries == 3

Nil == "nil"
NoImage == "-"

\* ------------------------------------------------------------------- state

VARIABLES
    cfg,        \* config.Config: CachePolicy, CacheCapacity, CacheArchive
    made,       \* what the factory returned: "cache", "driver", "error" ("none": not called)
    policy,     \* which engine NewImageCache built
    capacity,   \* cacheBase.capacity
    level,      \* cacheBase.level
    images,     \* the engine's images map (naive: ImageID -> size)
    layers,     \* layer-/archive-LRU: ChainID -> the mapped element's record
    evictList,  \* the recency list, front first (image IDs or chain IDs)
    mu,         \* cacheBase.mu: the writer holding it and the readers
    pc,         \* where each thread is
    call,       \* the locals of each thread's call in progress
    store,      \* image service: the images in the image store
    inuse,      \* image service: images a running container uses
    leaked,     \* layer store: chain IDs with a handle the cache dropped unreleased
    evictEnd,   \* how the latest eviction pass of the call in progress ended
    ncalls,     \* the mutating calls that have returned
    faults,     \* the collaborator errors met so far that the state did not force
    retried,    \* the call in progress retried a candidate MaxRetries times
    last,       \* the PutImage that returned last, while nothing happened since
    items,      \* lruLayerCacheDriver.items: ChainID -> element of the list
    elems       \* lruLayerCacheDriver: the list elements in use and their imageCacheItem

driverVars == <<items, elems>>
cfgVars == <<cfg, made, policy, capacity, driverVars>>
stepVars == <<cfgVars, ncalls>>
cacheVars == <<level, images, layers, evictList>>
envVars == <<store, inuse, leaked>>
faultVars == <<faults>>
ctlVars == <<mu, pc, call>>
obsVars == <<evictEnd, retried>>
vars == <<cfg, made, policy, capacity, level, images, layers, evictList, mu, pc, call,
          store, inuse, leaked, ncalls, faults, evictEnd, retried, last, items, elems>>

LayerGranular == policy \in {"layer-lru", "archive-lru"}

\* What the level accounts for: the nodes of the recency list, or (naive) the
\* keys of the map.
Entries == IF policy = "naive" THEN DOMAIN images ELSE Range(evictList)

\* The locals of a call: the operation and its argument, the chain IDs still
\* to visit, the arguments and the checkboard of the eviction pass, the
\* collaborator operations called and the images ImageDelete was called for,
\* the level when the lock was taken, the entries then when the call repeats
\* the PutImage that returned just before, and whether the handler returned
\* early on an error.
NoCall == [op |-> "none", img |-> NoImage, todo |-> <<>>, current |-> "",
           checkboard |-> [c \in Chains |-> 0], L0 |-> 0, E0 |-> {}, issued |-> {},
           deleted |-> {}, err |-> FALSE]
NoLast == [img |-> NoImage, L0 |-> 0]

\* What every constructor leaves: empty maps and list, level 0, a free lock.
Constructed ==
    /\ level = 0
    /\ items = <<>>
    /\ elems = <<>>
    /\ images = <<>>
    /\ layers = <<>>
    /\ evictList = <<>>
    /\ mu = [writer |-> 0, readers |-> {}]
    /\ pc = [t \in Threads |-> "idle"]
    /\ call = [t \in Threads |-> NoCall]
    /\ store = {}
    /\ inuse = {}
    /\ leaked = {}
    /\ ncalls = 0
    /\ faults = 0
    /\ evictEnd = "none"
    /\ retried = FALSE
    /\ last = NoLast

\* ------------------------------------------------------------- the factories

\* units.RAMInBytes(text) on a text given as its characters: digits, then an
\* optional space, an optional unit k, m or g (binary multiples), an optional
\* i and an optional b, in either case; anything else is an error.
DigitValue(ch) ==
    CASE ch = "0" -> 0 [] ch = "1" -> 1 [] ch = "2" -> 2 [] ch = "3" -> 3 [] ch = "4" -> 4
      [] ch = "5" -> 5 [] ch = "6" -> 6 [] ch = "7" -> 7 [] ch = "8" -> 8 [] ch = "9" -> 9
      [] OTHER -> -1
IsDigit(ch) == DigitValue(ch) >= 0

RECURSIVE LeadingDigits(_)
LeadingDigits(s) ==
    IF s # <<>> /\ IsDigit(Head(s)) THEN 1 + LeadingDigits(Tail(s)) ELSE 0

RECURSIVE NumberOf(_)
NumberOf(ds) ==
    IF ds = <<>> THEN 0 ELSE 10 * NumberOf(SubSeq(ds, 1, Len(ds) - 1)) + DigitValue(ds[Len(ds)])

Lower(ch) ==
    CASE ch = "K" -> "k" [] ch = "M" -> "m" [] ch = "G" -> "g" [] ch = "I" -> "i"
      [] ch = "B" -> "b" [] OTHER -> ch
LowerAll(s) == [i \in 1..Len(s) |-> Lower(s[i])]

UnitSuffixes == {<<>>, <<"i">>, <<"b">>, <<"i", "b">>}
Multiplier(suffix) ==
    LET u == IF suffix # <<>> /\ Head(suffix) = " " THEN Tail(suffix) ELSE suffix IN
    CASE u \in UnitSuffixes -> 1
      [] u # <<>> /\ Head(u) = "k" /\ Tail(u) \in UnitSuffixes -> 1024
      [] u # <<>> /\ Head(u) = "m" /\ Tail(u) \in UnitSuffixes -> 1024 * 1024
      [] u # <<>> /\ Head(u) = "g" /\ Tail(u) \in UnitSuffixes -> 1024 * 1024 * 1024
      [] OTHER -> 0

RAMInBytes(text) ==
    LET n == LeadingDigits(text)
        m == Multiplier(LowerAll(SubSeq(text, n + 1, Len(text))))
    IN  IF n = 0 \/ m = 0 THEN [ok |-> FALSE, bytes |-> -1]
        ELSE [ok |-> TRUE, bytes |-> NumberOf(SubSeq(text, 1, n)) * m]

\* The decimal text of a number.
RECURSIVE Decimal(_)
Decimal(n) ==
    LET d == <<"0", "1", "2", "3", "4", "5", "6", "7", "8", "9">>[(n % 10) + 1] IN
    IF n < 10 THEN <<d>> ELSE Append(Decimal(n \div 10), d)

\* DefaultCacheCapacity = "1GB".
DefaultCacheCapacity == <<"1", "G", "B">>

\* strings.ToLower on the policy names tried.
ToLower(name) ==
    CASE name = "Layer-LRU" -> "layer-lru" [] name = "IMAGE-LRU" -> "image-lru" [] OTHER -> name

\* The configurations tried: capacity texts of up to MaxText characters.
MaxText == 3
TextChars == {"5", "8", "k", "b", "x"}
RECURSIVE Texts(_)
Texts(n) ==
    IF n = 0 THEN {<<>>}
    ELSE Texts(n - 1) \cup {Append(s, ch) : s \in {x \in Texts(n - 1) : Len(x) = n - 1}, ch \in TextChars}
PolicyNames == {"image-lru", "layer-lru", "archive-lru", "Layer-LRU", "IMAGE-LRU", "", "fifo"}
Configs ==
    [CachePolicy : PolicyNames, CacheCapacity : Texts(MaxText), CacheArchive : BOOLEAN]

\* No configuration: newNaiveCache is given its capacity as a number.
NoConfig == [CachePolicy |-> "", CacheCapacity |-> <<>>, CacheArchive |-> FALSE]
ConfigOf(pol, cap) ==
    IF pol = "naive" THEN NoConfig
    ELSE [CachePolicy |-> pol, CacheCapacity |-> Decimal(cap),
          CacheArchive |-> (pol = "archive-lru")]

\* The engine NewImageCache picks for a policy name.
EngineOf(c) ==
    LET name == ToLower(c.CachePolicy) IN
    IF name \in {"image-lru", "layer-lru", "archive-lru"} THEN name ELSE "image-lru"

\* NewImageCache(cfg, is): the capacity is parsed first and its error
\* returned; archive-lru without --cache-archive is an error too.
NewImageCache ==
    /\ made = "none"
    /\ LET parsed == RAMInBytes(cfg.CacheCapacity) IN
       IF ~parsed.ok \/ (EngineOf(cfg) = "archive-lru" /\ ~cfg.CacheArchive)
       THEN /\ made' = "error"
            /\ UNCHANGED <<policy, capacity>>
       ELSE /\ made' = "cache"
            /\ policy' = EngineOf(cfg)
            /\ capacity' = parsed.bytes
    /\ UNCHANGED <<cfg, ncalls, cacheVars, envVars, faultVars, ctlVars, obsVars, last, driverVars>>

\* newCacheDriver(driver, capacity, is) of package images: on a parse error
\* the default capacity is parsed instead; every driver name gives the
\* layer-LRU driver. The image store is empty, loadExistingImages has nothing
\* to put.
NewCacheDriver ==
    /\ made = "none"
    /\ store = {}
    /\ LET parsed == RAMInBytes(cfg.CacheCapacity) IN
       capacity' = IF parsed.ok THEN parsed.bytes ELSE RAMInBytes(DefaultCacheCapacity).bytes
    /\ made' = "driver"
    /\ policy' = "layer-lru"
    /\ UNCHANGED <<cfg, ncalls, cacheVars, envVars, faultVars, ctlVars, obsVars, last, driverVars>>

Init ==
    /\ policy \in Policies
    /\ capacity \in Capacities
    /\ cfg = ConfigOf(policy, capacity)
    /\ made = "cache"
    /\ Constructed

\* ------------------------------------------------- image service, layer store

InCall(t) == pc[t] \notin {"idle", "level"}
Quiescent == \A t \in Threads : ~InCall(t)

\* The chain IDs the cache holds an unreleased read-only handle of: the handle
\* of a record of the map, or one it dropped without releasing it.
Held(ls, lk) == {c \in DOMAIN ls : ls[c].handle = "held"} \cup lk

\* A layer is in the layer store while its reference count is positive:
\* something refers to it, an image of the image store whose top layer it is,
\* a layer above it, or a handle (h: the chain IDs with a handle).
Exists(c, st, h) ==
    \E d \in Chains : c \in AncSelf(d) /\ (d \in h \/ \E i \in st : TopChain(i) = d)

\* What a collaborator operation may answer: "ok" when the state allows it,
\* and an error when the state forces one or one more fault may happen.
Outcomes(possible, errs) ==
    (IF possible THEN {"ok"} ELSE {}) \cup
    (IF ~possible \/ faults < MaxFaults THEN errs ELSE {})
\* An error that the state did not force counts as a fault.
Injected(possible, o) == IF possible /\ o # "ok" THEN 1 ELSE 0
Fault(n) == faults' = faults + n

\* GetReadOnlyLayer(chainID, os): the handle ("ok", the reference count goes up)
\* or an error; a layer that is not in the store cannot be fetched.
GetOutcomes(c, st, h) == Outcomes(Exists(c, st, h), {"err"})

\* ReleaseReadOnlyLayer(layer, os) of a handle that is still held: the layers
\* whose reference count reached zero (h: the handles before, h1: after).
ReleasedSet(st, h, h1) == {d \in Chains : Exists(d, st, h) /\ ~Exists(d, st, h1)}

\* ImageDelete(imgID, force, prune): "nosuch" (no such image), "conflict" (a
\* running container uses it), and otherwise deleted ("ok") or another error.
DeleteOutcomes(i, st) ==
    IF i \notin st THEN {"nosuch"}
    ELSE IF i \in inuse THEN {"conflict"}
    ELSE Outcomes(TRUE, {"error"})

\* GetImage(refOrID).
GetImageOutcomes(ref) == Outcomes(ref \in store, {"err"})

\* Events of the daemon that do not pass through the cache, taken between the
\* calls of the cache.
EnvPull(i) ==
    /\ Quiescent
    /\ i \notin store
    /\ store' = store \cup {i}
    /\ UNCHANGED <<stepVars, cacheVars, ctlVars, obsVars, faultVars, inuse, leaked>>
    /\ last' = NoLast

EnvDelete(i) ==
    /\ Quiescent
    /\ i \in store \ inuse
    /\ store' = store \ {i}
    /\ UNCHANGED <<stepVars, cacheVars, ctlVars, obsVars, faultVars, inuse, leaked>>
    /\ last' = NoLast

EnvStart(i) ==
    /\ Quiescent
    /\ i \in store \ inuse
    /\ inuse' = inuse \cup {i}
    /\ UNCHANGED <<stepVars, cacheVars, ctlVars, obsVars, faultVars, store, leaked>>
    /\ last' = NoLast

EnvStop(i) ==
    /\ Quiescent
    /\ i \in inuse
    /\ inuse' = inuse \ {i}
    /\ UNCHANGED <<stepVars, cacheVars, ctlVars, obsVars, faultVars, store, leaked>>
    /\ last' = NoLast

\* --------------------------------------------------------------- cache base

\* A Lock that never waits: what the exclusion properties must tell apart from
\* the mutex.
LockNoWait(t) == TRUE
\* c.mu.Lock(): waits until no writer and no reader holds the lock.
Lock(t) == mu.writer = 0 /\ mu.readers = {}
\* A thread is free to take the next mutating call.
Idle(t) == pc[t] = "idle" /\ ncalls < MaxCalls
\* c.mu.RLock(): waits until no writer holds the lock.
RLock(t) == mu.writer = 0

\* A call takes the lock: its locals.
Begin(op, img) ==
    [NoCall EXCEPT !.op = op, !.img = img, !.L0 = level,
                   !.E0 = IF op = "put" /\ img = last.img THEN Entries ELSE {}]

\* The handler returns early on an error of a collaborator or of the size check.
Failed(c) == [c EXCEPT !.err = TRUE]

\* The call goes on at p, holding the lock. The memory of the PutImage that
\* returned last is kept while a call on the same image follows it.
Goto(t, p, c) ==
    /\ pc' = [pc EXCEPT ![t] = p]
    /\ mu' = [mu EXCEPT !.writer = t]
    /\ call' = [call EXCEPT ![t] = c]
    /\ last' = IF c.img = last.img THEN last ELSE NoLast

\* The deferred c.mu.Unlock() of a mutating call that returns.
Unlock(t) ==
    /\ pc[t] = "ret"
    /\ pc' = [pc EXCEPT ![t] = "idle"]
    /\ mu' = [mu EXCEPT !.writer = 0]
    /\ call' = [call EXCEPT ![t] = NoCall]
    /\ last' = IF call[t].op = "put" /\ call[t].img # Nil
               THEN [img |-> call[t].img, L0 |-> call[t].L0]
               ELSE NoLast
    /\ evictEnd' = "none"
    /\ retried' = FALSE
    /\ ncalls' = ncalls + 1
    /\ UNCHANGED <<cfgVars, cacheVars, envVars, faultVars>>

\* The retries the capacity bound speaks of are counted from the moment the
\* level rises above the capacity.
Retried(l1, r) == IF level <= capacity /\ l1 > capacity THEN FALSE ELSE r

\* cacheBase.Level(): RLock, read, RUnlock.
LevelBegin(t) ==
    /\ pc[t] = "idle"
    /\ RLock(t)
    /\ pc' = [pc EXCEPT ![t] = "level"]
    /\ mu' = [mu EXCEPT !.readers = @ \cup {t}]
    /\ UNCHANGED <<stepVars, cacheVars, envVars, obsVars, faultVars, last, call>>

LevelEnd(t) ==
    /\ pc[t] = "level"
    /\ pc' = [pc EXCEPT ![t] = "idle"]
    /\ mu' = [mu EXCEPT !.readers = @ \ {t}]
    /\ UNCHANGED <<stepVars, cacheVars, envVars, obsVars, faultVars, last, call>>

\* cacheBase.getImageSize(img): fetch the top layer, ask its size, release it.
ProbeOutcomes(img) ==
    IF Exists(TopChain(img), store, Held(layers, leaked))
    THEN Outcomes(TRUE, {"fetchErr", "sizeErr"})
    ELSE {"fetchErr"}
ProbeFault(img, p) == Injected(Exists(TopChain(img), store, Held(layers, leaked)), p)
ProbeCalls == {"GetReadOnlyLayer", "ReleaseReadOnlyLayer"}

\* A size check that only probes and never compares with the capacity.
CheckImageSizeProbeOnly(img, p) == p = "ok"
\* cacheBase.checkImageSize(img): an error when the probe fails or the size is
\* larger than the capacity.
CheckImageSize(img, p) == p = "ok" /\ ~(ImageSize(img) > capacity)

\* ---------------------------------------------------------------- image-LRU

DropKey(m, k) == [x \in DOMAIN m \ {k} |-> m[x]]
DropKeys(m, K) == [x \in DOMAIN m \ K |-> m[x]]
PutKey(m, k, v) == [x \in DOMAIN m \cup {k} |-> IF x = k THEN v ELSE m[x]]

ImagePutImage(t, img) ==
    /\ policy = "image-lru"
    /\ Idle(t)
    /\ Lock(t)
    /\ UNCHANGED <<stepVars, envVars, layers, evictEnd>>
    /\ IF img = Nil
       THEN /\ Goto(t, "ret", Begin("put", img))
            /\ UNCHANGED <<level, images, evictList, retried, faults>>
       ELSE \E p1 \in ProbeOutcomes(img), p2 \in ProbeOutcomes(img) :
            LET c == [Begin("put", img) EXCEPT !.issued = ProbeCalls] IN
            IF ~CheckImageSize(img, p1)
            THEN /\ Goto(t, "ret", Failed(c))
                 /\ Fault(ProbeFault(img, p1))
                 /\ UNCHANGED <<level, images, evictList, retried>>
            ELSE IF img \in DOMAIN images
            THEN /\ evictList' = MoveToFront(evictList, img)
                 /\ Goto(t, "ret", c)
                 /\ UNCHANGED <<level, images, retried, faults>>
            ELSE IF p2 # "ok"
            THEN /\ Goto(t, "ret", Failed(c))
                 /\ Fault(ProbeFault(img, p2))
                 /\ UNCHANGED <<level, images, evictList, retried>>
            ELSE /\ images' = PutKey(images, img, img)
                 /\ UNCHANGED faults
                 /\ evictList' = PushFront(evictList, img)
                 /\ level' = level + ImageSize(img)
                 /\ retried' = Retried(level + ImageSize(img), retried)
                 /\ Goto(t, "evict", c)

ImageUpdateImage(t, ref) ==
    /\ policy = "image-lru"
    /\ Idle(t)
    /\ Lock(t)
    /\ UNCHANGED <<stepVars, envVars, level, images, layers, evictEnd, retried>>
    /\ \E g \in GetImageOutcomes(ref) :
        /\ Fault(Injected(ref \in store, g))
        /\ evictList' = IF g = "ok" /\ ref \in DOMAIN images
                        THEN MoveToFront(evictList, ref) ELSE evictList
        /\ Goto(t, "ret", [Begin("update", ref) EXCEPT !.issued = {"GetImage"},
                                                       !.err = (g = "err")])

ImageRemoveImage(t, img) ==
    /\ policy = "image-lru"
    /\ Idle(t)
    /\ Lock(t)
    /\ UNCHANGED <<stepVars, envVars, layers, evictEnd, retried>>
    /\ IF img \in DOMAIN images
       THEN \E p \in ProbeOutcomes(img) :
            /\ Goto(t, "ret", [Begin("remove", img) EXCEPT !.issued = ProbeCalls,
                                                           !.err = (p # "ok")])
            /\ Fault(ProbeFault(img, p))
            /\ IF p # "ok"
               THEN UNCHANGED <<level, images, evictList>>
               ELSE /\ images' = DropKey(images, img)
                    /\ evictList' = Without(evictList, img)
                    /\ level' = level - ImageSize(img)
       ELSE /\ Goto(t, "ret", Begin("remove", img))
            /\ UNCHANGED <<level, images, evictList, faults>>

\* imageLRUCache.evict: one evaluation of the loop condition and, when it
\* holds, one iteration of the loop.
ImageEvict(t) ==
    /\ policy = "image-lru"
    /\ pc[t] = "evict"
    /\ UNCHANGED <<stepVars, inuse, leaked, layers, retried>>
    /\ IF ~(capacity < level)
       THEN /\ evictEnd' = "fit"
            /\ Goto(t, "ret", call[t])
            /\ UNCHANGED <<level, images, evictList, store, faults>>
       ELSE IF evictList = <<>>
       THEN \* e.Value of the nil element Back() returns
            /\ evictEnd' = "panic"
            /\ Goto(t, "ret", call[t])
            /\ UNCHANGED <<level, images, evictList, store, faults>>
       ELSE LET img == Back(evictList) IN
            \E p \in ProbeOutcomes(img) :
            IF p # "ok"
            THEN \* continue
                 /\ Goto(t, "evict", [call[t] EXCEPT !.issued = @ \cup ProbeCalls])
                 /\ Fault(ProbeFault(img, p))
                 /\ UNCHANGED <<level, images, evictList, store, evictEnd>>
            ELSE \E d \in DeleteOutcomes(img, store) :
                 LET c == [call[t] EXCEPT !.issued = @ \cup ProbeCalls \cup {"ImageDelete"},
                                          !.deleted = @ \cup {img}] IN
                 /\ Fault(IF d = "error" THEN 1 ELSE 0)
                 /\ CASE d \in {"conflict", "nosuch"} ->
                        \* continue
                        /\ Goto(t, "evict", c)
                        /\ UNCHANGED <<level, images, evictList, store, evictEnd>>
                   [] d = "error" ->
                        /\ evictEnd' = "error"
                        /\ Goto(t, "ret", c)
                        /\ UNCHANGED <<level, images, evictList, store>>
                   [] d = "ok" ->
                        /\ store' = store \ {img}
                        /\ images' = DropKey(images, img)
                        /\ evictList' = Without(evictList, img)
                        /\ level' = level - ImageSize(img)
                        /\ Goto(t, "evict", c)
                        /\ UNCHANGED evictEnd

\* -------------------------------------------------------------------- naive

NaivePutImage(t, img) ==
    /\ policy = "naive"
    /\ Idle(t)
    /\ Lock(t)
    /\ UNCHANGED <<stepVars, envVars, layers, evictList, evictEnd>>
    /\ IF img = Nil
       THEN /\ Goto(t, "ret", Begin("put", img))
            /\ UNCHANGED <<level, images, retried, faults>>
       ELSE \E p1 \in ProbeOutcomes(img), p2 \in ProbeOutcomes(img) :
            LET c == [Begin("put", img) EXCEPT !.issued = ProbeCalls] IN
            IF ~CheckImageSize(img, p1)
            THEN /\ Goto(t, "ret", Failed(c))
                 /\ Fault(ProbeFault(img, p1))
                 /\ UNCHANGED <<level, images, retried>>
            ELSE IF img \in DOMAIN images
            THEN /\ Goto(t, "ret", c)
                 /\ UNCHANGED <<level, images, retried, faults>>
            ELSE IF p2 # "ok"
            THEN /\ Goto(t, "ret", Failed(c))
                 /\ Fault(ProbeFault(img, p2))
                 /\ UNCHANGED <<level, images, retried>>
            ELSE /\ images' = PutKey(images, img, ImageSize(img))
                 /\ UNCHANGED faults
                 /\ level' = level + ImageSize(img)
                 /\ retried' = Retried(level + ImageSize(img), retried)
                 /\ Goto(t, "evict", [c EXCEPT !.current = img])

NaiveUpdateImage(t, ref) ==
    /\ policy = "naive"
    /\ Idle(t)
    /\ Lock(t)
    /\ Goto(t, "evict", Begin("update", ref))
    /\ UNCHANGED <<stepVars, envVars, cacheVars, evictEnd, retried, faults>>

\* A RemoveImage that drops the key and forgets c.level -= size.
NaiveRemoveImageKeepsLevel(t, img) ==
    /\ policy = "naive"
    /\ Idle(t)
    /\ Lock(t)
    /\ UNCHANGED <<stepVars, envVars, layers, evictList, evictEnd, retried, faults>>
    /\ Goto(t, "ret", Begin("remove", img))
    /\ images' = DropKeys(images, {img})
    /\ UNCHANGED level

\* naiveCache.RemoveImage(imgID).
NaiveRemoveImage(t, img) ==
    /\ policy = "naive"
    /\ Idle(t)
    /\ Lock(t)
    /\ UNCHANGED <<stepVars, envVars, layers, evictList, evictEnd, retried, faults>>
    /\ Goto(t, "ret", Begin("remove", img))
    /\ IF img \in DOMAIN images
       THEN /\ images' = DropKey(images, img)
            /\ level' = level - images[img]
       ELSE UNCHANGED <<level, images>>

RECURSIVE SumSizes(_, _)
SumSizes(m, K) ==
    IF K = {} THEN 0
    ELSE LET k == CHOOSE x \in K : TRUE IN m[k] + SumSizes(m, K \ {k})

\* A pass that forgets `if imgID == current { continue }`.
NaiveVictimsAll(cur) == DOMAIN images
\* The entries the pass of naiveCache.evict(current) visits: all but current.
NaiveVictims(cur) == DOMAIN images \ {cur}

\* naiveCache.evict(current): one pass over the map; the errors of ImageDelete
\* are logged and the entry is dropped all the same.
NaiveEvict(t) ==
    /\ policy = "naive"
    /\ pc[t] = "evict"
    /\ UNCHANGED <<stepVars, inuse, leaked, layers, evictList, retried>>
    /\ IF level > capacity
       THEN LET victims == NaiveVictims(call[t].current)
                deletable == (victims \cap store) \ inuse
            IN  \E failed \in {F \in SUBSET deletable : faults + Cardinality(F) <= MaxFaults} :
                /\ Fault(Cardinality(failed))
                /\ store' = store \ (deletable \ failed)
                /\ images' = DropKeys(images, victims)
                /\ level' = level - SumSizes(images, victims)
                /\ evictEnd' = "done"
                /\ Goto(t, "ret", [call[t] EXCEPT
                        !.issued = @ \cup (IF victims = {} THEN {} ELSE {"ImageDelete"}),
                        !.deleted = @ \cup victims])
       ELSE /\ evictEnd' = "fit"
            /\ Goto(t, "ret", call[t])
            /\ UNCHANGED <<level, images, store, faults>>

\* ------------------------------------------------- layer-LRU and archive-LRU

NoRetries == [c \in Chains |-> 0]

\* A cacheLayer: its size, its images slice, and what became of its handle:
\* "held", "released" (ReleaseReadOnlyLayer was called on it) or "nil" (the
\* failed GetReadOnlyLayer of evict assigned nil to it).
CacheLayer(size, imgs, handle) == [size |-> size, images |-> imgs, handle |-> handle]

RECURSIVE SumDiff(_)
SumDiff(S) ==
    IF S = {} THEN 0
    ELSE LET c == CHOOSE x \in S : TRUE IN DiffSize(c) + SumDiff(S \ {c})

\* The loop over the released layers in removeLayer and evict: every released
\* layer the map knows is dropped from the map and the list, and its DiffSize
\* is taken off the level.
DropReleased(ls, R) == DropKeys(ls, R)
LevelAfterRelease(ls, R) == level - SumDiff(R \cap DOMAIN ls)

\* evict returns: the handler goes on with its next layer, or returns.
EndEvict(t, end, iss, del) ==
    /\ evictEnd' = end
    /\ Goto(t, IF call[t].todo = <<>> THEN "ret" ELSE "layers",
            [call[t] EXCEPT !.issued = @ \cup iss, !.deleted = @ \cup del])

\* What a handler works on while it walks the layers of its image.
Work == [level |-> level, layers |-> layers, evictList |-> evictList,
         leaked |-> leaked, faults |-> faults, issued |-> {}, end |-> evictEnd]

\* The fault a walk over the chain IDs of todo may meet: none, or one of the
\* given kinds at one of its layers.
NoFault == <<"", "">>
Injections(todo, kinds) ==
    {NoFault} \cup
    (IF faults < MaxFaults THEN {<<c, k>> : c \in Range(todo), k \in kinds} ELSE {})

\* cl.images = append(cl.images, img.ImageID()). evict deletes the images of
\* the slice in order and never acts on the second entry of an image (it is
\* "no such image" by then, or the loop has left at the first), so the slice
\* is kept without repetitions.
AppendImage(imgs, img) == IF img \in Range(imgs) THEN imgs ELSE Append(imgs, img)

\* putLayer(chainID, img) before its deferred evict.
PutLayer(S, c, img, inj) ==
    LET had == c \in DOMAIN S.layers
        list1 == IF had THEN Without(S.evictList, c) ELSE S.evictList
        level1 == IF had THEN S.level - S.layers[c].size ELSE S.level
        there == Exists(c, store, Held(S.layers, S.leaked))
        S1 == [S EXCEPT !.evictList = list1, !.level = level1,
                        !.issued = @ \cup {"GetReadOnlyLayer"}]
    IN  IF ~there \/ inj = <<c, "fetch">>
        THEN [S1 EXCEPT !.faults = @ + Injected(there, "err")]
        ELSE IF inj = <<c, "size">>
        THEN [S1 EXCEPT !.faults = @ + 1, !.leaked = @ \cup {c}]
        ELSE [S1 EXCEPT
                !.leaked = @ \cup (IF had /\ S.layers[c].handle = "held" THEN {c} ELSE {}),
                !.layers = PutKey(@, c, CacheLayer(DiffSize(c), <<img>>, "held")),
                !.evictList = PushFront(list1, c),
                !.level = level1 + DiffSize(c)]

\* updateLayer(chainID, img) before its deferred evict.
UpdateLayer(S, c, img) ==
    IF c \in DOMAIN S.layers
    THEN [S EXCEPT !.layers[c].images = AppendImage(@, img),
                   !.evictList = MoveToFront(@, c)]
    ELSE S

\* removeLayer(chainID).
RemoveLayer(S, c, inj) ==
    IF c \notin DOMAIN S.layers THEN S
    ELSE LET held == S.layers[c].handle = "held"
             S1 == [S EXCEPT !.issued = @ \cup {"ReleaseReadOnlyLayer"}]
         IN  IF ~held \/ inj = <<c, "release">>
             THEN [S1 EXCEPT !.faults = @ + Injected(held, "error")]
             ELSE LET ls == [S.layers EXCEPT ![c].handle = "released"]
                      R == ReleasedSet(store, Held(S.layers, S.leaked), Held(ls, S.leaked))
                  IN  [S1 EXCEPT !.level = @ - SumDiff(R \cap DOMAIN ls),
                                 !.layers = DropReleased(ls, R),
                                 !.evictList = WithoutAll(@, R \cap DOMAIN ls)]

\* A deferred evict that never enters its loop.
NeedsEvictNever(S) == FALSE
\* The deferred evict of putLayer and updateLayer: with an empty list it
\* returns at once, and so does its loop while the level is within capacity.
NeedsEvict(S) == S.evictList # <<>> /\ capacity < S.level
NoEvict(S) == [S EXCEPT !.end = IF S.evictList = <<>> THEN "empty" ELSE "fit"]

\* The loop `for _, chainID := range chainIDs` of the handlers, up to the
\* first layer whose deferred evict has something to evict.
RECURSIVE PutLayers(_, _, _, _)
PutLayers(S, todo, img, inj) ==
    IF todo = <<>> THEN [work |-> S, todo |-> <<>>, evict |-> FALSE]
    ELSE LET S1 == PutLayer(S, Head(todo), img, inj) IN
         IF NeedsEvict(S1) THEN [work |-> S1, todo |-> Tail(todo), evict |-> TRUE]
         ELSE PutLayers(NoEvict(S1), Tail(todo), img, inj)

RECURSIVE UpdateLayers(_, _, _)
UpdateLayers(S, todo, img) ==
    IF todo = <<>> THEN [work |-> S, todo |-> <<>>, evict |-> FALSE]
    ELSE LET S1 == UpdateLayer(S, Head(todo), img) IN
         IF NeedsEvict(S1) THEN [work |-> S1, todo |-> Tail(todo), evict |-> TRUE]
         ELSE UpdateLayers(NoEvict(S1), Tail(todo), img)

RECURSIVE RemoveLayers(_, _, _)
RemoveLayers(S, todo, inj) ==
    IF todo = <<>> THEN [work |-> S, todo |-> <<>>, evict |-> FALSE]
    ELSE RemoveLayers(RemoveLayer(S, Head(todo), inj), Tail(todo), inj)

\* The handler has walked its layers as far as r says: it returns, or its
\* eviction loop starts with the arguments cur and a fresh checkboard.
Walked(t, c, r, cur) ==
    /\ level' = r.work.level
    /\ layers' = r.work.layers
    /\ evictList' = r.work.evictList
    /\ leaked' = r.work.leaked
    /\ faults' = r.work.faults
    /\ evictEnd' = r.work.end
    /\ retried' = Retried(r.work.level, retried)
    /\ Goto(t, IF r.evict THEN "evict" ELSE "ret",
            [c EXCEPT !.todo = r.todo, !.current = cur, !.checkboard = NoRetries,
                      !.issued = @ \cup r.work.issued])

\* The current argument of evict: the image being put (layer-LRU only).
Current(img) == IF policy = "layer-lru" THEN img ELSE ""

LayerPutImage(t, img) ==
    /\ LayerGranular
    /\ Idle(t)
    /\ Lock(t)
    /\ UNCHANGED <<stepVars, store, inuse>>
    /\ IF img = Nil
       THEN /\ Goto(t, "ret", Begin("put", img))
            /\ UNCHANGED <<cacheVars, leaked, faults, obsVars>>
       ELSE \E p \in ProbeOutcomes(img) :
            LET c == [Begin("put", img) EXCEPT !.issued = ProbeCalls] IN
            IF ~CheckImageSize(img, p)
            THEN /\ Goto(t, "ret", Failed(c))
                 /\ Fault(ProbeFault(img, p))
                 /\ UNCHANGED <<cacheVars, leaked, obsVars>>
            ELSE \E inj \in Injections(ChainOf(img), {"fetch", "size"}) :
                 /\ images' = PutKey(images, img, img)
                 /\ Walked(t, c, PutLayers(Work, ChainIDsTopDown(img), img, inj), Current(img))

\* PutImage goes on with its next layer after an eviction pass.
LayerPutRest(t) ==
    /\ LayerGranular
    /\ pc[t] = "layers"
    /\ call[t].op = "put"
    /\ UNCHANGED <<stepVars, store, inuse, images>>
    /\ \E inj \in Injections(call[t].todo, {"fetch", "size"}) :
        Walked(t, call[t], PutLayers(Work, call[t].todo, call[t].img, inj),
               Current(call[t].img))

LayerUpdateImage(t, ref) ==
    /\ LayerGranular
    /\ Idle(t)
    /\ Lock(t)
    /\ UNCHANGED <<stepVars, store, inuse, images>>
    /\ \E g \in GetImageOutcomes(ref) :
        LET c == [Begin("update", ref) EXCEPT !.issued = {"GetImage"}] IN
        IF g = "err"
        THEN /\ Goto(t, "ret", Failed(c))
             /\ Fault(Injected(ref \in store, g))
             /\ UNCHANGED <<level, layers, evictList, leaked, obsVars>>
        ELSE Walked(t, c, UpdateLayers(Work, ChainIDsTopDown(ref), ref), "")

\* UpdateImage goes on with its next layer after an eviction pass.
LayerUpdateRest(t) ==
    /\ LayerGranular
    /\ pc[t] = "layers"
    /\ call[t].op = "update"
    /\ UNCHANGED <<stepVars, store, inuse, images>>
    /\ Walked(t, call[t], UpdateLayers(Work, call[t].todo, call[t].img), "")

\* A RemoveImage without the lookup in c.images: it walks the layers of any
\* image it is given.
LayerRemoveImageUnchecked(t, img) ==
    /\ LayerGranular
    /\ Idle(t)
    /\ Lock(t)
    /\ UNCHANGED <<stepVars, store, inuse>>
    /\ \E inj \in Injections(ChainOf(img), {"release"}) :
        /\ images' = DropKeys(images, {img})
        /\ Walked(t, Begin("remove", img), RemoveLayers(Work, ChainOf(img), inj), "")

\* layerLRUCache.RemoveImage(imgID), archiveLRUCache.RemoveImage(imgID).
LayerRemoveImage(t, img) ==
    /\ LayerGranular
    /\ Idle(t)
    /\ Lock(t)
    /\ UNCHANGED <<stepVars, store, inuse>>
    /\ IF img \notin DOMAIN images
       THEN /\ Goto(t, "ret", Begin("remove", img))
            /\ UNCHANGED <<cacheVars, leaked, faults, obsVars>>
       ELSE \E inj \in Injections(ChainOf(img), {"release"}) :
            /\ images' = DropKey(images, img)
            /\ Walked(t, Begin("remove", img), RemoveLayers(Work, ChainOf(img), inj), "")

\* The loop over cl.images in evict: ImageDelete(imgID, false, false) for each
\* image until the current image or a conflict is met (break) or an error that
\* is not "no such image" comes back (return). errAt is the image whose
\* deletion fails with such an error, if any.
RECURSIVE DeleteImages(_, _, _, _)
DeleteImages(imgs, st, cur, errAt) ==
    IF imgs = <<>> THEN [store |-> st, res |-> "ok", called |-> {}]
    ELSE LET i == Head(imgs)
             rest(st1) == LET r == DeleteImages(Tail(imgs), st1, cur, errAt)
                          IN  [r EXCEPT !.called = @ \cup {i}]
         IN
         IF i = cur THEN [store |-> st, res |-> "conflict", called |-> {}]
         ELSE IF i \notin st THEN rest(st)
         ELSE IF i \in inuse THEN [store |-> st, res |-> "conflict", called |-> {i}]
         ELSE IF i = errAt THEN [store |-> st, res |-> "error", called |-> {i}]
         ELSE rest(st \ {i})

\* checkboard[chainID]++ and the test against the retry threshold.
Skip(t, c, iss, del) ==
    LET n == call[t].checkboard[c] + 1 IN
    /\ retried' = (retried \/ n >= MaxRetries)
    /\ IF n > MaxRetries
       THEN EndEvict(t, "exhausted", iss, del)
       ELSE /\ UNCHANGED evictEnd
            /\ Goto(t, "evict", [call[t] EXCEPT !.checkboard[c] = n, !.issued = @ \cup iss,
                                                !.deleted = @ \cup del])

\* The handle is released: with an empty release set the candidate is moved to
\* the front and skipped, else the released layers are taken out of the index
\* and the loop goes on.
Evicted(t, c, st, ls, iss, del) ==
    LET R == ReleasedSet(st, Held(layers, leaked), Held(ls, leaked)) IN
    IF R = {}
    THEN /\ layers' = ls
         /\ evictList' = MoveToFront(evictList, c)
         /\ UNCHANGED level
         /\ Skip(t, c, iss, del)
    ELSE /\ level' = LevelAfterRelease(ls, R)
         /\ layers' = DropReleased(ls, R)
         /\ evictList' = WithoutAll(evictList, R \cap DOMAIN ls)
         /\ Goto(t, "evict", [call[t] EXCEPT !.issued = @ \cup iss, !.deleted = @ \cup del])
         /\ UNCHANGED <<retried, evictEnd>>

\* layerLRUCache.evict(current): one evaluation of the loop condition and, when
\* it holds, one iteration of the loop.
LayerEvict(t) ==
    /\ policy = "layer-lru"
    /\ pc[t] = "evict"
    /\ UNCHANGED <<stepVars, inuse, leaked, images>>
    /\ IF ~(capacity < level)
       THEN /\ EndEvict(t, "fit", {}, {})
            /\ UNCHANGED <<level, layers, evictList, store, retried, faults>>
       ELSE IF evictList = <<>> \/ layers[Back(evictList)].handle = "nil"
       THEN \* e.Value of a nil element, cl.layer.ChainID() of a nil layer
            /\ evictEnd' = "panic"
            /\ Goto(t, "ret", call[t])
            /\ UNCHANGED <<level, layers, evictList, store, retried, faults>>
       ELSE LET c == Back(evictList)
                cl == layers[c]
            IN \E errAt \in {NoImage} \cup {i \in Range(cl.images) : faults < MaxFaults} :
               LET d == DeleteImages(cl.images, store, call[t].current, errAt) IN
               /\ store' = d.store
               /\ CASE d.res = "error" ->
                         /\ Fault(1)
                         /\ EndEvict(t, "error", {"ImageDelete"}, d.called)
                         /\ UNCHANGED <<level, layers, evictList, retried>>
                    [] d.res = "conflict" ->
                         /\ Skip(t, c, {"ImageDelete"}, d.called)
                         /\ UNCHANGED <<level, layers, evictList, faults>>
                    [] d.res = "ok" /\ cl.handle = "held" ->
                         \E o \in Outcomes(TRUE, {"error"}) :
                             IF o = "error"
                             THEN \* the release loop logs the error and tests it again
                                  /\ Fault(1)
                                  /\ Goto(t, "spin", [call[t] EXCEPT
                                          !.issued = @ \cup {"ImageDelete", "ReleaseReadOnlyLayer"},
                                          !.deleted = @ \cup d.called])
                                  /\ UNCHANGED <<level, layers, evictList, retried, evictEnd>>
                             ELSE /\ UNCHANGED faults
                                  /\ Evicted(t, c, d.store,
                                             [layers EXCEPT ![c].handle = "released"],
                                             {"ImageDelete", "ReleaseReadOnlyLayer"}, d.called)
                    [] d.res = "ok" /\ cl.handle = "released" ->
                         \* "layer not retained": fetch the layer again
                         LET iss == {"ImageDelete", "ReleaseReadOnlyLayer", "GetReadOnlyLayer"}
                             there == Exists(c, d.store, Held(layers, leaked))
                         IN
                         \E g \in GetOutcomes(c, d.store, Held(layers, leaked)) :
                             /\ Fault(Injected(there, g))
                             /\ IF g = "err"
                                THEN /\ layers' = [layers EXCEPT ![c].handle = "nil"]
                                     /\ EndEvict(t, "error", iss, d.called)
                                     /\ UNCHANGED <<level, evictList, retried>>
                                ELSE /\ layers' = [layers EXCEPT ![c].handle = "held"]
                                     /\ evictList' = MoveToFront(evictList, c)
                                     /\ UNCHANGED level
                                     /\ Skip(t, c, iss, d.called)

\* The release loop of layerLRUCache.evict after an error that is not "layer
\* not retained": err never changes, the loop does not end.
LayerSpin(t) ==
    /\ pc[t] = "spin"
    /\ UNCHANGED vars

\* archiveLRUCache.evict(): no current image, and any release error returns.
ArchiveEvict(t) ==
    /\ policy = "archive-lru"
    /\ pc[t] = "evict"
    /\ UNCHANGED <<stepVars, inuse, leaked, images>>
    /\ IF ~(capacity < level)
       THEN /\ EndEvict(t, "fit", {}, {})
            /\ UNCHANGED <<level, layers, evictList, store, retried, faults>>
       ELSE IF evictList = <<>>
       THEN /\ evictEnd' = "panic"
            /\ Goto(t, "ret", call[t])
            /\ UNCHANGED <<level, layers, evictList, store, retried, faults>>
       ELSE LET c == Back(evictList)
                al == layers[c]
            IN \E errAt \in {NoImage} \cup {i \in Range(al.images) : faults < MaxFaults} :
               LET d == DeleteImages(al.images, store, "", errAt) IN
               /\ store' = d.store
               /\ CASE d.res = "error" ->
                         /\ Fault(1)
                         /\ EndEvict(t, "error", {"ImageDelete"}, d.called)
                         /\ UNCHANGED <<level, layers, evictList, retried>>
                    [] d.res = "conflict" ->
                         /\ Skip(t, c, {"ImageDelete"}, d.called)
                         /\ UNCHANGED <<level, layers, evictList, faults>>
                    [] d.res = "ok" ->
                         \E o \in Outcomes(al.handle = "held", {"error"}) :
                             /\ Fault(Injected(al.handle = "held", o))
                             /\ IF o = "error"
                                THEN /\ EndEvict(t, "error", {"ImageDelete", "ReleaseReadOnlyLayer"},
                                                 d.called)
                                     /\ UNCHANGED <<level, layers, evictList, retried>>
                                ELSE Evicted(t, c, d.store,
                                             [layers EXCEPT ![c].handle = "released"],
                                             {"ImageDelete", "ReleaseReadOnlyLayer"}, d.called)

Next ==
    \/ \E i \in Images : EnvPull(i) \/ EnvDelete(i) \/ EnvStart(i) \/ EnvStop(i)
    \/ \E t \in Threads : LevelBegin(t) \/ LevelEnd(t) \/ Unlock(t)
    \/ \E t \in Threads, img \in Images \cup {Nil} :
        ImagePutImage(t, img) \/ NaivePutImage(t, img) \/ LayerPutImage(t, img)
    \/ \E t \in Threads, img \in Images :
        \/ ImageUpdateImage(t, img) \/ ImageRemoveImage(t, img)
        \/ NaiveUpdateImage(t, img) \/ NaiveRemoveImage(t, img)
        \/ LayerUpdateImage(t, img) \/ LayerRemoveImage(t, img)
    \/ \E t \in Threads :
        \/ ImageEvict(t) \/ NaiveEvict(t)
        \/ LayerPutRest(t) \/ LayerUpdateRest(t)
        \/ LayerEvict(t) \/ LayerSpin(t) \/ ArchiveEvict(t)

Spec == Init /\ [][Next]_vars

\* The image-granularity engines on their own, with three images.
InitOfThree ==
    /\ policy \in {"image-lru", "naive"}
    /\ capacity \in CapacitiesOfThree
    /\ cfg = ConfigOf(policy, capacity)
    /\ made = "cache"
    /\ Constructed

NextOfThree ==
    \/ \E i \in ImagesOfThree : EnvPull(i) \/ EnvDelete(i) \/ EnvStart(i) \/ EnvStop(i)
    \/ \E t \in Threads : LevelBegin(t) \/ LevelEnd(t) \/ Unlock(t)
    \/ \E t \in Threads, img \in ImagesOfThree \cup {Nil} :
        ImagePutImage(t, img) \/ NaivePutImage(t, img)
    \/ \E t \in Threads, img \in ImagesOfThree :
        \/ ImageUpdateImage(t, img) \/ ImageRemoveImage(t, img)
        \/ NaiveUpdateImage(t, img) \/ NaiveRemoveImage(t, img)
    \/ \E t \in Threads : ImageEvict(t) \/ NaiveEvict(t)

SpecOfThree == InitOfThree /\ [][NextOfThree]_vars

\* The factories on their own: a configuration, then one of the two factories.
InitFactory ==
    /\ cfg \in Configs
    /\ made = "none"
    /\ policy = "none"
    /\ capacity = 0
    /\ Constructed

NextFactory == NewImageCache \/ NewCacheDriver

SpecFactory == InitFactory /\ [][NextFactory]_vars

\* ------------------------------------------------------------------ claims

\* What the level should account for: the sizes of the nodes of the recency
\* list (layer granularity), the sizes of the images held (image granularity).
RECURSIVE SumImages(_)
SumImages(K) ==
    IF K = {} THEN 0
    ELSE LET k == CHOOSE x \in K : TRUE IN ImageSize(k) + SumImages(K \ {k})

RECURSIVE SumNodes(_)
SumNodes(l) == IF l = <<>> THEN 0 ELSE layers[Head(l)].size + SumNodes(Tail(l))

Accounted ==
    CASE policy = "naive" -> SumSizes(images, DOMAIN images)
      [] policy = "image-lru" -> SumImages(DOMAIN images)
      [] OTHER -> SumNodes(evictList)

\* The keys of the index map: images for image-LRU, layers at layer granularity.
IndexKeys == IF LayerGranular THEN DOMAIN layers ELSE DOMAIN images

\* C1: whenever no mutating call is in progress, the level equals the sum of
\* the sizes of the entries held (list nodes at layer granularity, images at
\* image granularity), in every engine.
C1_Accounting == Quiescent => level = Accounted

\* C2: in image-LRU, layer-LRU and archive-LRU, whenever no mutating call is in
\* progress the keys of the index map are exactly the nodes of the recency list.
C2_IndexIsList ==
    (Quiescent /\ policy # "naive") => IndexKeys = Range(evictList)

\* C10: in layer-LRU and archive-LRU every image ID in the images slice of a
\* layer record is a key of the images table.
C10_ImagesKnown ==
    LayerGranular =>
        \A c \in DOMAIN layers : Range(layers[c].images) \subseteq DOMAIN images

\* A mutating call of thread t is about to return.
Returns(t, op) == pc[t] = "ret" /\ call[t].op = op

\* C3 as stated: a mutating call that starts within capacity returns within
\* capacity, or it has retried some candidate MaxRetries times.
C3_CapacityOrRetries ==
    \A t \in Threads :
        (pc[t] = "ret" /\ call[t].L0 <= capacity) => (level <= capacity \/ retried)

\* C3 amended: a mutating call that starts within capacity returns within
\* capacity, or its last eviction pass was given up: after more than
\* MaxRetries retries of a candidate, on an error of the image service or the
\* layer store that is neither a conflict nor "no such image", or in a panic
\* on the nil handle such an error left behind.
C3_CapacityOrGivenUp ==
    \A t \in Threads :
        (pc[t] = "ret" /\ call[t].L0 <= capacity) =>
            (level <= capacity \/ evictEnd \in {"exhausted", "error", "panic"})

\* C4: a thread in a mutating call holds the lock exclusively from its first
\* step to its return, no other thread is in a mutating call, and a thread
\* that reads the level holds the lock shared while no mutating call is in
\* progress.
C4_MutualExclusion ==
    \A t \in Threads :
        /\ InCall(t) =>
              /\ mu.writer = t
              /\ mu.readers = {}
              /\ \A u \in Threads \ {t} : pc[u] = "idle"
        /\ pc[t] = "level" => (t \in mu.readers /\ mu.writer = 0 /\ Quiescent)

\* C5 as stated: RemoveImage(img) right after PutImage(img) returns the level
\* to what it was before the PutImage.
C5_RoundTrip ==
    \A t \in Threads :
        (Returns(t, "remove") /\ last.img = call[t].img) => level = last.L0

\* C5 amended: in image-LRU and naive, when the PutImage raised the level by
\* the size of img (it admitted img and evicted nothing), the RemoveImage that
\* follows takes img out and the level is back to what it was before the
\* PutImage; or the size probe of RemoveImage failed (image-LRU), and img
\* stays in the map with the level as the PutImage left it.
C5_RoundTripAdmitted ==
    \A t \in Threads :
        (/\ Returns(t, "remove") /\ last.img = call[t].img
         /\ ~LayerGranular
         /\ call[t].L0 = last.L0 + ImageSize(call[t].img))
        => \/ call[t].img \notin DOMAIN images /\ level = last.L0
           \/ /\ call[t].err /\ policy = "image-lru"
              /\ call[t].img \in DOMAIN images /\ level = call[t].L0

\* What PutImage(img) accounts for when it admits img.
EntriesOf(img) == IF LayerGranular THEN Range(ChainOf(img)) ELSE {img}

\* C6: a PutImage(img) right after a PutImage(img) that admitted img within
\* capacity leaves the level and the set of accounted entries as the first
\* call left them.
C6_PutTwice ==
    \A t \in Threads :
        (/\ Returns(t, "put") /\ last.img = call[t].img
         /\ EntriesOf(call[t].img) \subseteq call[t].E0
         /\ call[t].L0 <= capacity)
        => (level = call[t].L0 /\ Entries = call[t].E0)

\* The layers of img that are nodes of the recency list.
ResidentLayers(img) == Range(ChainOf(img)) \cap Range(evictList)

\* The target of UpdateImage(img) is at the front: the node of the image, or
\* its resident layers ahead of every other layer.
AtFront(img) ==
    IF LayerGranular
    THEN \A i \in 1..Cardinality(ResidentLayers(img)) : evictList[i] \in ResidentLayers(img)
    ELSE evictList # <<>> /\ Head(evictList) = img

\* C7 as stated: UpdateImage of a resident image leaves the level unchanged
\* and moves its node (image-LRU) or its resident layers (layer-LRU) to the
\* front.
C7_UpdateResident ==
    \A t \in Threads :
        (/\ Returns(t, "update")
         /\ policy \in {"image-lru", "layer-lru"}
         /\ call[t].img \in DOMAIN images)
        => (level = call[t].L0 /\ AtFront(call[t].img))

\* C7 amended: the same when GetImage finds the image and, in layer-LRU, the
\* call starts with the level within capacity.
C7_UpdateResidentFound ==
    \A t \in Threads :
        (/\ Returns(t, "update")
         /\ policy \in {"image-lru", "layer-lru"}
         /\ call[t].img \in DOMAIN images
         /\ ~call[t].err
         /\ (policy = "layer-lru" => call[t].L0 <= capacity))
        => (level = call[t].L0 /\ AtFront(call[t].img))

\* Thread t takes a mutating call op(img) in this step.
Takes(t, op, img) ==
    pc[t] = "idle" /\ pc'[t] \notin {"idle", "level"}
    /\ call'[t].op = op /\ call'[t].img = img

\* C8: a PutImage of an image whose size exceeds the capacity returns at once,
\* with the level, the maps and the recency list as they were and without a
\* call of ImageDelete.
C8_OversizeRejected ==
    [][\A t \in Threads, img \in Images :
        (Takes(t, "put", img) /\ ImageSize(img) > capacity) =>
            /\ pc'[t] = "ret"
            /\ UNCHANGED <<cacheVars, store>>
            /\ "ImageDelete" \notin call'[t].issued]_vars

\* C9: a RemoveImage of an image that is not a key of the images map returns
\* at once, with the level, the maps and the recency list as they were and
\* without any call of the layer store or the image service.
C9_RemoveUnknown ==
    [][\A t \in Threads, img \in Images :
        (Takes(t, "remove", img) /\ img \notin DOMAIN images) =>
            /\ pc'[t] = "ret"
            /\ UNCHANGED <<cacheVars, envVars>>
            /\ call'[t].issued = {}]_vars

\* C3: a call returns above capacity after an error ended its eviction pass
\* before any candidate was retried MaxRetries times.
C3_GivenUpOnError ==
    \E t \in Threads :
        /\ pc[t] = "ret" /\ call[t].L0 <= capacity
        /\ level > capacity /\ evictEnd = "error" /\ ~retried

\* C4: a thread is in the eviction loop of its call, holding the lock, while
\* the other thread waits.
C4_InEvictionLoop ==
    \E t \in Threads, u \in Threads :
        t # u /\ pc[t] = "evict" /\ mu.writer = t /\ pc[u] = "idle" /\ level > capacity

\* C5: in image-LRU or naive, RemoveImage(img) has undone the PutImage(img)
\* that admitted img beside what was held before.
C5_RoundTripDone ==
    \E t \in Threads :
        /\ Returns(t, "remove") /\ last.img = call[t].img
        /\ ~LayerGranular
        /\ call[t].L0 = last.L0 + ImageSize(call[t].img)
        /\ call[t].img \notin DOMAIN images
        /\ level = last.L0 /\ last.L0 > 0

\* C7: UpdateImage has moved the resident layers of its image ahead of the
\* layer of another image, the level unchanged.
C7_LayersMovedToFront ==
    \E t \in Threads :
        /\ Returns(t, "update") /\ policy = "layer-lru"
        /\ call[t].img \in DOMAIN images /\ ~call[t].err
        /\ call[t].L0 <= capacity /\ level = call[t].L0
        /\ ResidentLayers(call[t].img) # {}
        /\ Range(evictList) \ ResidentLayers(call[t].img) # {}
        /\ AtFront(call[t].img)

\* C8: a PutImage of an image larger than the capacity has returned, the cache
\* holding another image.
C8_RejectedBesideOther ==
    \E t \in Threads :
        /\ Returns(t, "put") /\ call[t].img \in Images
        /\ ImageSize(call[t].img) > capacity
        /\ level > 0 /\ level = call[t].L0

\* C9: a RemoveImage of an image that is not in the images map has returned
\* while layers of that image are in the cache.
C9_UnknownBesideLayers ==
    \E t \in Threads :
        /\ Returns(t, "remove") /\ LayerGranular
        /\ call[t].img \notin DOMAIN images
        /\ call[t].issued = {}
        /\ ResidentLayers(call[t].img) # {} /\ level = call[t].L0

\* A step of the eviction loop that thread t runs inside PutImage.
EvictsInPut(t) == pc[t] = "evict" /\ call[t].op = "put"

\* The layer records a step takes out of the map.
Dropped == DOMAIN layers \ DOMAIN layers'

\* C11: in layer-LRU and archive-LRU no step of the eviction loop of
\* PutImage(img) calls ImageDelete for img or removes a layer record whose
\* images slice contains img.
C11_SelfProtected ==
    [][\A t \in Threads :
        (LayerGranular /\ EvictsInPut(t)) =>
            /\ call[t].img \notin call'[t].deleted
            /\ \A c \in Dropped : call[t].img \notin Range(layers[c].images)]_vars

\* The scenario of C12: image-LRU with capacity 100, PutImage(B) returns,
\* having been called while the cache held A alone (the level at entry is the
\* size of A, 50, which no other image has) and having admitted B.
ScenarioAB(t) ==
    /\ policy = "image-lru" /\ capacity = 100
    /\ Returns(t, "put") /\ call[t].img = "B" /\ ~call[t].err
    /\ call[t].L0 = ImageSize("A")

\* C12 as stated: A is deleted through ImageDelete, B stays resident and the
\* final level is 50.
C12_FinalLevelFifty ==
    \A t \in Threads :
        ScenarioAB(t) =>
            /\ "A" \in call[t].deleted /\ DOMAIN images = {"B"}
            /\ level = 50

\* C12 amended: ImageDelete is called for A, the back node; when it deletes A,
\* B is the only resident image and the final level is 110 - 50 = 60; when it
\* fails with an error that is neither a conflict nor "no such image" the
\* pass is given up with A and B resident and the level 110.
C12_FinalLevelSixty ==
    \A t \in Threads :
        ScenarioAB(t) =>
            /\ call[t].deleted = {"A"}
            /\ IF evictEnd = "error"
               THEN evictList = <<"B", "A">> /\ DOMAIN images = {"A", "B"} /\ level = 110
               ELSE evictList = <<"B">> /\ DOMAIN images = {"B"} /\ level = 60
                    /\ "A" \notin store

\* C12: the scenario has ended with A evicted and B resident.
C12_EvictedA ==
    \E t \in Threads :
        ScenarioAB(t) /\ evictEnd = "fit" /\ evictList = <<"B">> /\ level = 60

\* The pass of naiveCache.evict that thread t runs inside PutImage with the
\* level above the capacity.
NaivePass(t) ==
    policy = "naive" /\ pc[t] = "evict" /\ call[t].op = "put" /\ level > capacity

\* C13: when a naive PutImage(img) leaves the level above the capacity, the
\* pass calls ImageDelete for every resident entry other than img and not for
\* img, drops all those entries whatever ImageDelete answers, and returns
\* with img as the only entry and the level at the size of img, within the
\* capacity.
C13_NaivePass ==
    [][\A t \in Threads :
        NaivePass(t) =>
            /\ call'[t].deleted = DOMAIN images \ {call[t].img}
            /\ DOMAIN images' = {call[t].img}
            /\ level' = ImageSize(call[t].img) /\ level' <= capacity
            /\ pc'[t] = "ret"]_vars

\* C13: a pass has dropped two other entries, one of them although its
\* ImageDelete failed (the image is still in the store).
C13_TwoDropped ==
    \E t \in Threads :
        /\ policy = "naive" /\ Returns(t, "put") /\ evictEnd = "done"
        /\ Cardinality(call[t].deleted) = 2
        /\ call[t].deleted \cap store # {}
        /\ DOMAIN images = {call[t].img}

\* C14: when the capacity text of the configuration cannot be parsed, the
\* factory still returns a cache, and its capacity is the default, 1 GB.
C14_ParseFallback ==
    (made # "none" /\ ~RAMInBytes(cfg.CacheCapacity).ok) =>
        (made \in {"cache", "driver"} /\ capacity = 1024 * 1024 * 1024)

\* C15: the level is never negative, in any engine.
C15_LevelNonNegative == level >= 0

\* Thread t touches img in this step: a PutImage or UpdateImage of img that does
\* not return early on an error and has img in the recency list.
Touches(t, img) ==
    /\ Takes(t, "put", img) \/ Takes(t, "update", img)
    /\ ~call'[t].err
    /\ img \in Range(evictList')
Touched == {img \in ImagesOfThree : \E t \in Threads : Touches(t, img)}

\* The nodes a step takes out of the recency list.
Gone == Range(evictList) \ Range(evictList')

ImageEvictConflict(t) ==
    /\ ImageEvict(t)
    /\ capacity < level /\ evictList # <<>>
    /\ Back(evictList) \in store /\ Back(evictList) \in inuse
    /\ faults' = faults

\* C17: after a conflict on the back candidate of image-LRU the pass either
\* returns or has a different candidate at the back for its next iteration
\* (the candidate is skipped), which is what lets the pass and the PutImage
\* that started it return while the image stays in use.
C17_ConflictSkipped ==
    [][\A t \in Threads :
        ImageEvictConflict(t) =>
            \/ pc'[t] # "evict"
            \/ evictList' # <<>> /\ Back(evictList') # Back(evictList)
            \/ evictList' = <<>>]_vars

\* Thread t runs an iteration of imageLRUCache.evict in which the probe of the
\* back candidate succeeds and ImageDelete answers "no such image": the image
\* has left the image store while its layers are still there to be probed.
ImageEvictNoSuch(t) ==
    /\ ImageEvict(t)
    /\ capacity < level /\ evictList # <<>>
    /\ Back(evictList) \notin store
    /\ "ImageDelete" \in call'[t].issued
    /\ faults' = faults

\* C18: in image-LRU eviction a "no such image" from ImageDelete on the back
\* candidate is handled as a successful delete: the candidate leaves the map
\* and the recency list and the level goes down by its size.
C18_NoSuchIsSuccess ==
    [][\A t \in Threads :
        ImageEvictNoSuch(t) =>
            LET img == Back(evictList) IN
            /\ img \notin DOMAIN images'
            /\ evictList' = Without(evictList, img)
            /\ level' = level - ImageSize(img)]_vars

\* Thread t runs an iteration of the eviction loop of layer-LRU or archive-LRU
\* that ends in a skip of the back candidate: a conflict or an empty release
\* set, with no error from a collaborator.
SkipsCandidate(t) ==
    /\ LayerEvict(t) \/ ArchiveEvict(t)
    /\ capacity < level /\ evictList # <<>>
    /\ level' = level /\ faults' = faults
    /\ pc'[t] = "evict" \/ evictEnd' = "exhausted"

\* C19: in an eviction pass of layer-LRU or archive-LRU every iteration that
\* ends in a conflict or an empty release set adds one to the counter of the
\* candidate's chain ID; the pass returns as soon as that counter is over 3,
\* and else the candidate is moved to the front, so that the next iteration
\* has another candidate when there is one.
C19_SkippedToFront ==
    [][\A t \in Threads :
        SkipsCandidate(t) =>
            LET c == Back(evictList)
                n == call[t].checkboard[c] + 1
            IN /\ IF n > MaxRetries
                  THEN pc'[t] # "evict" /\ evictEnd' = "exhausted"
                  ELSE pc'[t] = "evict" /\ call'[t].checkboard[c] = n
               /\ pc'[t] = "evict" => evictList' = MoveToFront(evictList, c)]_vars

\* Thread t runs an iteration of layerLRUCache.evict in which the images of the
\* back candidate are out of the way, ReleaseReadOnlyLayer fails with "layer
\* not retained" (the handle of the record was released before) and the
\* layer is fetched again.
NotRetainedRecovered(t) ==
    /\ LayerEvict(t)
    /\ capacity < level /\ evictList # <<>>
    /\ layers[Back(evictList)].handle = "released"
    /\ DeleteImages(layers[Back(evictList)].images, store, call[t].current, NoImage).res = "ok"
    /\ faults' = faults
    /\ Back(evictList) \in DOMAIN layers' => layers'[Back(evictList)].handle # "nil"

\* C20: after a "layer not retained" in layer-LRU eviction the cache fetches
\* the handle again and releases it again, and the candidate is classified by
\* what that second release returns: with an empty set the record stays, its
\* handle released, and the level is unchanged; otherwise the released layers
\* leave the index and the level.
C20_RetriedRelease ==
    [][\A t \in Threads :
        NotRetainedRecovered(t) =>
            LET c == Back(evictList)
                got == [layers EXCEPT ![c].handle = "held"]
                rel == [layers EXCEPT ![c].handle = "released"]
                R == ReleasedSet(store', Held(got, leaked), Held(rel, leaked))
            IN IF R = {}
               THEN /\ c \in DOMAIN layers' /\ layers'[c].handle = "released"
                    /\ level' = level
               ELSE /\ c \notin DOMAIN layers'
                    /\ level' = LevelAfterRelease(rel, R)]_vars

\* Thread t runs an iteration of an eviction loop in which a collaborator
\* answers with an error that is not one of "conflict", "no such image" and
\* "layer not retained" (the errors the model injects).
EvictMeetsError(t) ==
    /\ pc[t] = "evict"
    /\ ImageEvict(t) \/ NaiveEvict(t) \/ LayerEvict(t) \/ ArchiveEvict(t)
    /\ faults' = faults + 1

\* C21: an unclassified error of ImageDelete, ReleaseReadOnlyLayer or the size
\* probe during eviction ends the pass: the thread is out of the eviction loop
\* after that iteration, and does not go round on the failing call.
C21_ErrorEndsPass ==
    [][\A t \in Threads : EvictMeetsError(t) => pc'[t] \notin {"evict", "spin"}]_vars

\* C22: a PutImage, UpdateImage or RemoveImage that starts with the level above
\* the capacity has run the eviction loop (a pass has come to its end in the
\* call) when it returns.
C22_EvictionReattempted ==
    \A t \in Threads :
        (pc[t] = "ret" /\ call[t].op \in {"put", "update", "remove"} /\ call[t].L0 > capacity)
            => evictEnd # "none"

\* Thread t walks layers of the image it puts in this step (layer-LRU): the
\* start of PutImage or its continuation after an eviction pass.
PutsLayers(t) ==
    /\ policy = "layer-lru"
    /\ pc[t] \in {"idle", "layers"} /\ pc'[t] \in {"evict", "ret"}
    /\ call'[t].op = "put" /\ call'[t].img # Nil

\* C23: when PutImage of layer-LRU comes to a chain ID that is resident (a
\* layer the image shares with an image admitted before), the record it leaves
\* names the images it named before and the image being put.
C23_SharedKeepsImages ==
    [][\A t \in Threads, c \in Chains :
        (/\ PutsLayers(t)
         /\ c \in DOMAIN layers /\ c \in DOMAIN layers'
         /\ layers'[c] # layers[c])
        => /\ Range(layers[c].images) \subseteq Range(layers'[c].images)
           /\ call'[t].img \in Range(layers'[c].images)]_vars

\* C24: a size probe whose GetReadOnlyLayer fails (the top layer of the image
\* is not in the layer store) issues no ReleaseReadOnlyLayer: a PutImage that
\* starts with such a probe returns without a release.
C24_NoReleaseWithoutHandle ==
    [][\A t \in Threads, img \in Images :
        (Takes(t, "put", img) /\ ~Exists(TopChain(img), store, Held(layers, leaked)))
            => "ReleaseReadOnlyLayer" \notin call'[t].issued]_vars

\* C25: when a call of layer-LRU or archive-LRU returns, no image that its
\* eviction passes called ImageDelete for and that is gone from the image
\* store (deleted by the call, or gone already) is a key of the images table.
C25_EvictedLeaveImages ==
    \A t \in Threads :
        (LayerGranular /\ pc[t] = "ret")
            => \A i \in call[t].deleted : i \notin store => i \notin DOMAIN images

\* C26: while no mutating call is in progress in layer-LRU or archive-LRU, the
\* handles fetched and not released are those of the resident records, one for
\* each: every record holds its handle and no handle is without a record.
C26_NoLeakedHandles ==
    (LayerGranular /\ mu.writer = 0)
        => /\ leaked = {}
           /\ \A c \in DOMAIN layers : layers[c].handle = "held"

\* ------------------------------------- lruLayerCacheDriver (package images)

DriverCapacities == {80, 120}
\* The calls of the driver in a run.
MaxDriverCalls == 3
\* A thread is free to take the next call of the driver.
DriverIdle(t) == pc[t] = "idle" /\ ncalls < MaxDriverCalls

\* The locals of a call of the driver: the operation and its image, the chain
\* IDs applyFuncToLayers has still to visit (top layer first), the chain ID
\* putLayer works on, the element removeLayer or getLayer found, the element
\* evict took from the back and the image IDs its range loop has visited, the
\* image ID and the chain ID removeLayer is called with, whether evict called
\* it, the elements evict moved to the front since putLayer took the lock or
\* last removed a layer, and whether an iteration of putLayer's loop came back
\* to a state the loop was in before.
Resting ==
    [op |-> "none", img |-> NoImage, todo |-> <<>>, chain |-> "", e |-> 0, victim |-> 0,
     done |-> {}, id |-> NoImage, rchain |-> "", nested |-> FALSE, rotated |-> {},
     again |-> FALSE]

\* l.Parent(): the layer below, "" for a base layer.
ParentOf(c) ==
    LET P == {ChainOf(i)[k - 1] : i \in {j \in Images : \E n \in 2..Len(ChainOf(j)) : ChainOf(j)[n] = c},
                                  k \in {n \in 2..3 : \E j \in Images : n <= Len(ChainOf(j)) /\ ChainOf(j)[n] = c}}
    IN IF P = {} THEN "" ELSE CHOOSE p \in P : TRUE
\* chainIDs[i+1] in applyFuncToLayers: the layer above c in the image, "" for
\* the top layer.
ChildIn(img, c) ==
    LET ch == ChainOf(img)
        k == CHOOSE n \in 1..Len(ch) : ch[n] = c
    IN IF k < Len(ch) THEN ch[k + 1] ELSE ""
\* chainIDs[0]: the base layer of the image.
RootOf(img) == ChainOf(img)[1]

\* ls.Peek(chainID): the layer is in the layer store while an image of the
\* image store has it.
Peek(c, st) == Exists(c, st, {})

\* ls.ReleaseSingle(l): nothing is removed while a layer above l is in the
\* layer store; a layer that is not in the store gives nothing or an error.
ReleaseSingleOutcomes(c, st) ==
    IF ~Peek(c, st) THEN {"nil", "err"}
    ELSE IF \E d \in Chains : ParentOf(d) = c /\ Peek(d, st) THEN {"nil"}
    ELSE {"removed"} \cup (Outcomes(TRUE, {"err"}) \ {"ok"})

\* A new imageCacheItem.
Item(c, img, child) ==
    [chain |-> c, images |-> {img}, children |-> IF child = "" THEN {} ELSE {child}]

\* A new list element: the first number no element in use has.
FreshElement(el) ==
    CHOOSE n \in 1..(Cardinality(DOMAIN el) + 1) :
        n \notin DOMAIN el /\ \A m \in 1..(n - 1) : m \in DOMAIN el

\* The elements something still points to: the list, the map, a local of a call.
Live(list, its, cl) ==
    Range(list) \cup {its[c] : c \in DOMAIN its}
                \cup {cl[t].e : t \in Threads} \cup {cl[t].victim : t \in Threads}

\* evictList.MoveBefore(e, mark): nothing when one of the two is not in the
\* list or they are the same element.
MoveBefore(l, e, mark) ==
    IF e \notin Range(l) \/ mark \notin Range(l) \/ e = mark THEN l
    ELSE LET w == Without(l, e)
             k == CHOOSE n \in 1..Len(w) : w[n] = mark
         IN SubSeq(w, 1, k - 1) \o <<e>> \o SubSeq(w, k, Len(w))

\* A step of thread t in the driver: it goes on at p with locals c, leaves the
\* elements, the map, the list, the level and the image store as given, the
\* lock with writer w, and has met f injected errors. A call that returns is
\* counted.
DriverStep(t, p, c, el, its, list, lv, st, w, f) ==
    LET cl == [call EXCEPT ![t] = c] IN
    /\ pc' = [pc EXCEPT ![t] = p]
    /\ call' = cl
    /\ elems' = [n \in DOMAIN el \cap Live(list, its, cl) |-> el[n]]
    /\ items' = its
    /\ evictList' = list
    /\ level' = lv
    /\ store' = st
    /\ mu' = [mu EXCEPT !.writer = w]
    /\ faults' = faults + f
    /\ ncalls' = IF p = "idle" THEN ncalls + 1 ELSE ncalls
    /\ UNCHANGED <<cfg, made, policy, capacity, images, layers, inuse, leaked,
                   evictEnd, retried, last>>

\* The call returns (an error or nil) with the state as it is, the lock free.
DriverReturn(t, el, f) ==
    DriverStep(t, "idle", Resting, el, items, evictList, level, store, 0, f)

\* The layer function returned nil: applyFuncToLayers goes to the next chain
\* ID, or the call returns.
NextLayer(t, el, its, list, lv) ==
    IF Len(call[t].todo) = 1
    THEN DriverStep(t, "idle", Resting, el, its, list, lv, store, 0, 0)
    ELSE DriverStep(t, "apply",
                    [call[t] EXCEPT !.todo = Tail(@), !.chain = "", !.rchain = "", !.e = 0,
                                    !.rotated = {}, !.again = FALSE],
                    el, its, list, lv, store, 0, 0)

\* lruLayerCacheDriver.Put(img) up to applyFuncToLayers: nil image, size check.
DriverPut(t, img) ==
    /\ made = "driver"
    /\ DriverIdle(t)
    /\ IF img = Nil
       THEN DriverStep(t, "idle", Resting, elems, items, evictList, level, store, mu.writer, 0)
       ELSE \E o \in Outcomes(Peek(TopChain(img), store), {"err"}) :
            IF o = "err" \/ ImageSize(img) > capacity
            THEN DriverStep(t, "idle", Resting, elems, items, evictList, level, store, mu.writer,
                            Injected(Peek(TopChain(img), store), o))
            ELSE DriverStep(t, "apply",
                            [Resting EXCEPT !.op = "put", !.img = img,
                                            !.todo = ChainIDsTopDown(img)],
                            elems, items, evictList, level, store, mu.writer, 0)

\* applyFuncToLayers and putLayer up to the loop: Peek, DiffSize, Lock, and the
\* touch of a resident layer.
DriverPutLayer(t) ==
    /\ pc[t] = "apply" /\ call[t].op = "put"
    /\ LET c == Head(call[t].todo)
           img == call[t].img
       IN \E o \in Outcomes(Peek(c, store), {"err"}) :
          IF o = "err"
          THEN DriverStep(t, "idle", Resting, elems, items, evictList, level, store, mu.writer,
                          Injected(Peek(c, store), o))
          ELSE /\ Lock(t)
               /\ IF c \in DOMAIN items
                  THEN LET e == items[c] IN
                       NextLayer(t, [elems EXCEPT ![e].images = @ \cup {img},
                                                  ![e].children = @ \cup ({ChildIn(img, c)} \ {""})],
                                 items, MoveToFront(evictList, e), level)
                  ELSE DriverStep(t, "loop", [call[t] EXCEPT !.chain = c],
                                  elems, items, evictList, level, store, t, 0)

\* One evaluation of `for lru.level+size > lru.capacity` in putLayer, the write
\* lock held: the insertion when the layer fits, else one call of evict up to
\* its return or to the range loop that removes the images of the back item.
PutLayerLoop(t) ==
    /\ pc[t] = "loop"
    /\ LET c == call[t].chain
           img == call[t].img
       IN
       IF ~(level + DiffSize(c) > capacity)
       THEN LET n == FreshElement(elems) IN
            NextLayer(t, [m \in DOMAIN elems \cup {n} |->
                             IF m = n THEN Item(c, img, ChildIn(img, c)) ELSE elems[m]],
                      PutKey(items, c, n), PushFront(evictList, n), level + DiffSize(c))
       ELSE IF evictList = <<>>
       THEN \* "Cache is empty": evict returns nil
            DriverStep(t, "loop", [call[t] EXCEPT !.again = TRUE],
                       elems, items, evictList, level, store, t, 0)
       ELSE LET ve == Back(evictList)
                it == elems[ve]
            IN \E o \in Outcomes(TRUE, {"err"}) :
               IF o = "err"
               THEN DriverReturn(t, elems, 1)
               ELSE IF img \in it.images \/ it.images \cap inuse # {}
               THEN DriverStep(t, "loop",
                               [call[t] EXCEPT !.rotated = @ \cup {ve},
                                               !.again = @ \/ ve \in call[t].rotated],
                               elems, items, MoveToFront(evictList, ve), level, store, t, 0)
               ELSE \E r \in ReleaseSingleOutcomes(it.chain, store) :
                    CASE r = "err" ->
                           DriverReturn(t, elems, Injected(Peek(it.chain, store), r))
                      [] r = "nil" ->
                           DriverStep(t, "loop", [call[t] EXCEPT !.again = TRUE],
                                      elems, items, evictList, level, store, t, 0)
                      [] r = "removed" ->
                           DriverStep(t, "evrm",
                                      [call[t] EXCEPT !.victim = ve, !.done = {},
                                                      !.rotated = {}],
                                      elems, items, evictList, level, store, t, 0)

\* The range loop of evict over i.images, the write lock held: the reference
\* of the next image is deleted and the lock released for removeLayer; with no
\* image left evict returns nil.
EvictRemove(t) ==
    /\ pc[t] = "evrm"
    /\ LET ve == call[t].victim
           rest == elems[ve].images \ call[t].done
       IN IF rest = {}
          THEN DriverStep(t, "loop", [call[t] EXCEPT !.victim = 0, !.done = {}],
                          elems, items, evictList, level, store, t, 0)
          ELSE \E id \in rest :
               DriverStep(t, "rmcheck",
                          [call[t] EXCEPT !.done = @ \cup {id}, !.id = id, !.nested = TRUE,
                                          !.rchain = elems[ve].chain],
                          elems, items, evictList, level, store \ {id}, 0, 0)

\* The call goes on after a removeLayer that has returned: evict takes the
\* lock again, Remove goes to its next layer or returns on the error.
AfterRemoveLayer(t, el, its, list, lv, failed, f) ==
    IF call[t].nested
    THEN DriverStep(t, "evrelock", [call[t] EXCEPT !.e = 0, !.nested = FALSE],
                    el, its, list, lv, store, 0, f)
    ELSE IF failed
    THEN DriverStep(t, "idle", Resting, el, its, list, lv, store, 0, f)
    ELSE /\ f = 0
         /\ NextLayer(t, el, its, list, lv)

\* removeLayer called by evict: the test of residency under the read lock.
RemoveLayerCheck(t) ==
    /\ pc[t] = "rmcheck"
    /\ RLock(t)
    /\ LET c == call[t].rchain IN
       IF c \in DOMAIN items
       THEN DriverStep(t, "rmlock", [call[t] EXCEPT !.e = items[c]],
                       elems, items, evictList, level, store, mu.writer, 0)
       ELSE AfterRemoveLayer(t, elems, items, evictList, level, FALSE, 0)

\* removeLayer under the write lock, on the element found under the read lock.
RemoveLayerAct(t) ==
    /\ pc[t] = "rmlock"
    /\ Lock(t)
    /\ LET c == call[t].rchain
           e == call[t].e
           imgID == IF call[t].nested THEN call[t].id ELSE call[t].img
           root == RootOf(call[t].img)
           imgs == elems[e].images \ {imgID}
           el1 == [elems EXCEPT ![e].images = imgs]
       IN \E o \in Outcomes(TRUE, {"err"}) :
          IF o = "err"
          THEN AfterRemoveLayer(t, elems, items, evictList, level, TRUE, 1)
          ELSE IF imgs = {} /\ elems[e].children = {}
          THEN LET its == DropKey(items, c)
                   p == ParentOf(c)
               IN AfterRemoveLayer(t,
                      IF p # "" /\ p \in DOMAIN its
                      THEN [el1 EXCEPT ![its[p]].children = @ \ {c}] ELSE el1,
                      its, Without(evictList, e), level - DiffSize(c), FALSE, 0)
          ELSE IF root \notin DOMAIN items
          THEN AfterRemoveLayer(t, el1, items, evictList, level, TRUE, 0)
          ELSE AfterRemoveLayer(t, el1, items, MoveBefore(evictList, e, items[root]), level,
                                FALSE, 0)

\* cacheL.Lock() of evict after removeLayer.
EvictRelock(t) ==
    /\ pc[t] = "evrelock"
    /\ Lock(t)
    /\ DriverStep(t, "evrm", call[t], elems, items, evictList, level, store, t, 0)

\* lruLayerCacheDriver.Remove(img) up to applyFuncToLayers.
DriverRemove(t, img) ==
    /\ made = "driver"
    /\ DriverIdle(t)
    /\ IF img = Nil
       THEN DriverStep(t, "idle", Resting, elems, items, evictList, level, store, mu.writer, 0)
       ELSE DriverStep(t, "apply",
                       [Resting EXCEPT !.op = "remove", !.img = img,
                                       !.todo = ChainIDsTopDown(img)],
                       elems, items, evictList, level, store, mu.writer, 0)

\* applyFuncToLayers and the test of residency of removeLayer or getLayer under
\* the read lock.
LayerCheck(t) ==
    /\ pc[t] = "apply" /\ call[t].op \in {"remove", "get"}
    /\ LET c == Head(call[t].todo) IN
       IF ~Peek(c, store)
       THEN DriverStep(t, "idle", Resting, elems, items, evictList, level, store, mu.writer, 0)
       ELSE /\ RLock(t)
            /\ IF c \in DOMAIN items
               THEN DriverStep(t, IF call[t].op = "remove" THEN "rmlock" ELSE "getlock",
                               [call[t] EXCEPT !.rchain = c, !.e = items[c]],
                               elems, items, evictList, level, store, mu.writer, 0)
               ELSE NextLayer(t, elems, items, evictList, level)

\* lruLayerCacheDriver.Get(id) up to applyFuncToLayers.
DriverGet(t, img) ==
    /\ made = "driver"
    /\ DriverIdle(t)
    /\ IF img \notin store
       THEN DriverStep(t, "idle", Resting, elems, items, evictList, level, store, mu.writer, 0)
       ELSE DriverStep(t, "apply",
                       [Resting EXCEPT !.op = "get", !.img = img,
                                       !.todo = ChainIDsTopDown(img)],
                       elems, items, evictList, level, store, mu.writer, 0)

\* getLayer under the write lock, on the element found under the read lock.
GetLayerAct(t) ==
    /\ pc[t] = "getlock"
    /\ Lock(t)
    /\ LET e == call[t].e IN
       NextLayer(t, [elems EXCEPT ![e].images = @ \cup {call[t].img}],
                 items, MoveToFront(evictList, e), level)

InitDriver ==
    /\ policy = "layer-lru"
    /\ capacity \in DriverCapacities
    /\ cfg = ConfigOf(policy, capacity)
    /\ made = "driver"
    /\ level = 0 /\ items = <<>> /\ elems = <<>> /\ evictList = <<>>
    /\ images = <<>> /\ layers = <<>>
    /\ mu = [writer |-> 0, readers |-> {}]
    /\ pc = [t \in Threads |-> "idle"]
    /\ call = [t \in Threads |-> Resting]
    /\ store = {} /\ inuse = {} /\ leaked = {}
    /\ ncalls = 0 /\ faults = 0
    /\ evictEnd = "none" /\ retried = FALSE /\ last = NoLast

NextDriver ==
    \/ \E i \in Images : EnvPull(i) \/ EnvDelete(i) \/ EnvStart(i) \/ EnvStop(i)
    \/ \E t \in Threads : LevelBegin(t) \/ LevelEnd(t)
    \/ \E t \in Threads, img \in Images \cup {Nil} : DriverPut(t, img) \/ DriverRemove(t, img)
    \/ \E t \in Threads, img \in Images : DriverGet(t, img)
    \/ \E t \in Threads :
        \/ DriverPutLayer(t) \/ PutLayerLoop(t) \/ EvictRemove(t)
        \/ RemoveLayerCheck(t) \/ RemoveLayerAct(t) \/ EvictRelock(t)
        \/ LayerCheck(t) \/ GetLayerAct(t)

SpecDriver == InitDriver /\ [][NextDriver]_vars

\* The sizes of the layers resident in the driver: the elements of the list.
RECURSIVE SumElements(_)
SumElements(l) ==
    IF l = <<>> THEN 0 ELSE DiffSize(elems[Head(l)].chain) + SumElements(Tail(l))

\* C27: in lruLayerCacheDriver, whenever the lock is free, the level is the sum
\* of the sizes of the resident layers and the map and the list hold the same
\* elements, one for each resident chain ID: no interleaving of Put, Get and
\* Remove subtracts a size twice or works on an element another thread took
\* out.
C27_LevelIsSum ==
    (made = "driver" /\ mu.writer = 0)
        => /\ level = SumElements(evictList)
           /\ Range(evictList) = {items[c] : c \in DOMAIN items}

\* C28: the loop of putLayer around evict does not come back to a state it was
\* in before while it holds the write lock: no call of evict in it returns nil
\* with the list and the level as they were, and no back item is moved to the
\* front twice with nothing evicted in between.
C28_LoopAdvances ==
    \A t \in Threads : (made = "driver" /\ pc[t] = "loop") => ~call[t].again

====
